---- MODULE Spec2Model ----
(***************************************************************************)
(* A model of rusty_plug: the House registry of src/lib.rs (rooms hold a   *)
(* map from device name to a shared socket handle, plus a flat socket      *)
(* index) and the list-based House of src/main.rs.                         *)
(*                                                                         *)
(* An Rc<Socket> is a handle (a number); the heap `socket` maps a handle   *)
(* to the Socket it points to.  A HashMap is a function whose DOMAIN is    *)
(* its key set; a Vec is a sequence.                                       *)
(***************************************************************************)
EXTENDS Integers, Sequences, FiniteSets, TLC

\* ---------------------------------------------------------------- bounds
MaxSockets == 2        \* socket instances the caller constructs
MaxIndex == 3          \* cap on the length of SocketStorage.devices
VoltageStep == 379     \* distance between the sampled voltages

Handles == 1..MaxSockets
Names == {"A", "B"}
Rooms == {"bedroom", "kitchen"}
NoRoom == "-"
NoSocket == CHOOSE h \in 0..MaxSockets : h \notin Handles

\* ---------------------------------------------------------------- state
VARIABLES
    socket,            \* lib.rs heap: handle -> Socket {name, voltage}
    device_by_room,    \* lib.rs House.device_by_room
    sockets,           \* lib.rs House.sockets.devices
    last,              \* the last call on the lib.rs House and what it returned
    prev,              \* the lib.rs House as it was before that call
    m_socket,          \* main.rs heap
    m_device_by_room,  \* main.rs House.device_by_room
    m_sockets,         \* main.rs House.sockets.devices
    m_last             \* the last call on the main.rs House and what it returned

lib_vars == <<socket, device_by_room, sockets, last, prev>>
main_vars == <<m_socket, m_device_by_room, m_sockets, m_last>>
vars == <<socket, device_by_room, sockets, last, prev,
          m_socket, m_device_by_room, m_sockets, m_last>>

\* ---------------------------------------------------------------- values
UpperVoltage == 380

\* gen_range over the closed range 0.0..=380.0.
rand_voltage_inclusive ==
    {v \in 0..UpperVoltage : v % VoltageStep = 0 \/ v = UpperVoltage}

\* r.gen_range(0.0..380.0): the values the entropy source can return,
\* sampled every VoltageStep volts plus the largest one below 380.
rand_voltage ==
    {v \in 0..(UpperVoltage - 1) : v % VoltageStep = 0 \/ v = UpperVoltage - 1}

\* Socket::new(name): the name as given and a sampled voltage.
SocketNew(name) == {[name |-> name, voltage |-> v] : v \in rand_voltage}

\* Return values: Ok(val), or an error carrying one string.
Ok(val) == [kind |-> "Ok", arg |-> "", val |-> val]
AlreadyContainsDevice(name) ==
    [kind |-> "AlreadyContainsDevice", arg |-> name, val |-> <<>>]
WhereAmI(room) == room
NoSuchRoom(where) == [kind |-> "NoSuchRoom", arg |-> where, val |-> <<>>]
Panic == [kind |-> "panic", arg |-> "", val |-> <<>>]

Call(op, room, s, ret) == [op |-> op, room |-> room, socket |-> s, ret |-> ret]
Snapshot(dbr, socks) == [device_by_room |-> dbr, sockets |-> socks]

Range(f) == {f[i] : i \in DOMAIN f}
Contains(seq, x) == \E i \in DOMAIN seq : seq[i] = x

\* HashMap operations.
HashMapNew == [k \in {} |-> 0]
insert(m, k, v) == [x \in (DOMAIN m) \cup {k} |-> IF x = k THEN v ELSE m[x]]
remove(m, k) == [x \in (DOMAIN m) \ {k} |-> m[x]]
or_insert(m, k, v) == IF k \in DOMAIN m THEN m ELSE insert(m, k, v)

\* keys().cloned().collect(): every key once, in an order the hasher picks.
collect(S) ==
    {s \in [1..Cardinality(S) -> S] : \A i, j \in DOMAIN s : i # j => s[i] # s[j]}

\* Vec::retain(keep)
RECURSIVE retain(_, _)
retain(seq, dropped) ==
    IF seq = <<>> THEN <<>>
    ELSE IF Head(seq) = dropped THEN retain(Tail(seq), dropped)
         ELSE <<Head(seq)>> \o retain(Tail(seq), dropped)

\* ---------------------------------------------------------------- lib.rs
\* House::rooms: the values it can return.
rooms(dbr) == {Ok(s) : s \in collect(DOMAIN dbr)}

\* devices with a missing room read as an empty one.
devices_or_default(dbr, room) ==
    IF room \notin DOMAIN dbr
    THEN {Ok(<<>>)}
    ELSE {Ok(s) : s \in collect(DOMAIN dbr[room])}

\* House::devices: the values it can return.
devices(dbr, room) ==
    IF room \notin DOMAIN dbr
    THEN {NoSuchRoom(WhereAmI(room))}
    ELSE {Ok(s) : s \in collect(DOMAIN dbr[room])}

\* add_socket_to_room rejecting only the very handle the room already holds.
add_socket_to_room_by_identity(dbr, socks, heap, s, room) ==
    IF room \in DOMAIN dbr /\ s \in Range(dbr[room])
    THEN [device_by_room |-> dbr, sockets |-> socks,
          ret |-> AlreadyContainsDevice(heap[s].name)]
    ELSE LET entered == or_insert(dbr, room, HashMapNew)
         IN  [device_by_room |->
                  [entered EXCEPT ![room] = insert(@, heap[s].name, s)],
              sockets |-> Append(socks, s),
              ret |-> Ok(<<>>)]

\* add_socket_to_room without the entry(room).or_insert step.
add_socket_to_room_no_entry(dbr, socks, heap, s, room) ==
    IF \E res \in devices(dbr, room) :
          res.kind = "Ok" /\ Contains(res.val, heap[s].name)
    THEN [device_by_room |-> dbr, sockets |-> socks,
          ret |-> AlreadyContainsDevice(heap[s].name)]
    ELSE IF room \notin DOMAIN dbr
         THEN [device_by_room |-> dbr, sockets |-> socks, ret |-> Panic]
         ELSE [device_by_room |->
                   [dbr EXCEPT ![room] = insert(@, heap[s].name, s)],
               sockets |-> Append(socks, s),
               ret |-> Ok(<<>>)]

\* add_socket_to_room inserting the device under the room's name.
add_socket_to_room_keyed_by_room(dbr, socks, heap, s, room) ==
    IF \E res \in devices(dbr, room) :
          res.kind = "Ok" /\ Contains(res.val, heap[s].name)
    THEN [device_by_room |-> dbr, sockets |-> socks,
          ret |-> AlreadyContainsDevice(heap[s].name)]
    ELSE LET entered == or_insert(dbr, room, HashMapNew)
         IN  [device_by_room |-> [entered EXCEPT ![room] = insert(@, room, s)],
              sockets |-> Append(socks, s),
              ret |-> Ok(<<>>)]

\* add_socket_to_room without the check at its start: insert replaces.
add_socket_to_room_replace(dbr, socks, heap, s, room) ==
    LET entered == or_insert(dbr, room, HashMapNew)
    IN  [device_by_room |->
             [entered EXCEPT ![room] = insert(@, heap[s].name, s)],
         sockets |-> Append(socks, s),
         ret |-> Ok(<<>>)]

\* House::add_socket_to_room: the house afterwards and the return value.
add_socket_to_room(dbr, socks, heap, s, room) ==
    IF \E res \in devices(dbr, room) :
          res.kind = "Ok" /\ Contains(res.val, heap[s].name)
    THEN [device_by_room |-> dbr, sockets |-> socks,
          ret |-> AlreadyContainsDevice(heap[s].name)]
    ELSE LET entered == or_insert(dbr, room, HashMapNew)
         IN  IF room \notin DOMAIN entered
             THEN [device_by_room |-> entered, sockets |-> socks, ret |-> Panic]
             ELSE [device_by_room |->
                       [entered EXCEPT ![room] = insert(@, heap[s].name, s)],
                   sockets |-> Append(socks, s),
                   ret |-> Ok(<<>>)]

\* remove_room that empties the room and keeps its entry.
remove_room_clear(dbr, socks, room) ==
    [device_by_room |->
         IF room \in DOMAIN dbr THEN [dbr EXCEPT ![room] = HashMapNew] ELSE dbr,
     sockets |-> socks,
     ret |-> Ok(<<>>)]

\* remove_room that also purges the storage, of every socket.
remove_room_purge(dbr, socks, room) ==
    [device_by_room |-> remove(dbr, room), sockets |-> <<>>, ret |-> Ok(<<>>)]

\* remove_room that also drops the room's sockets from the storage.
remove_room_prune(dbr, socks, room) ==
    [device_by_room |-> remove(dbr, room),
     sockets |-> IF room \in DOMAIN dbr
                 THEN SelectSeq(socks, LAMBDA h : h \notin Range(dbr[room]))
                 ELSE socks,
     ret |-> Ok(<<>>)]

\* House::remove_room
remove_room(dbr, socks, room) ==
    [device_by_room |-> remove(dbr, room), sockets |-> socks, ret |-> Ok(<<>>)]

\* remove_socket_from_room pruning the storage by name.
remove_socket_from_room_by_name(dbr, socks, heap, room, s) ==
    [device_by_room |->
         IF room \in DOMAIN dbr
         THEN [dbr EXCEPT ![room] = remove(@, heap[s].name)]
         ELSE dbr,
     sockets |-> SelectSeq(socks, LAMBDA h : heap[h].name # heap[s].name),
     ret |-> Ok(<<>>)]

\* remove_socket_from_room reaching the room through entry(room).or_default().
remove_socket_from_room_or_default(dbr, socks, heap, room, s) ==
    [device_by_room |->
         [or_insert(dbr, room, HashMapNew) EXCEPT ![room] = remove(@, heap[s].name)],
     sockets |-> retain(socks, s),
     ret |-> Ok(<<>>)]

\* remove_socket_from_room dropping the name from every room.
remove_socket_from_room_everywhere(dbr, socks, heap, room, s) ==
    [device_by_room |-> [r \in DOMAIN dbr |-> remove(dbr[r], heap[s].name)],
     sockets |-> retain(socks, s),
     ret |-> Ok(<<>>)]

\* House::remove_socket_from_room
remove_socket_from_room(dbr, socks, heap, room, s) ==
    [device_by_room |->
         IF room \in DOMAIN dbr
         THEN [dbr EXCEPT ![room] = remove(@, heap[s].name)]
         ELSE dbr,
     sockets |-> retain(socks, s),
     ret |-> Ok(<<>>)]

\* The handles House::poll visits.
Placed(dbr) == UNION {Range(dbr[r]) : r \in DOMAIN dbr}

\* What rand_voltage returns on each visit of one poll, by socket visited.
Draws == [Handles -> rand_voltage]

\* Socket::poll (Device::poll): the voltage is replaced by a fresh sample.
socket_poll(sock, v) == [sock EXCEPT !.voltage = v]

\* poll visiting every socket ever built, placed or not.
poll_every_socket(dbr, heap, draw) ==
    [s \in DOMAIN heap |-> socket_poll(heap[s], draw[s])]

\* House::poll: every placed socket polled, the others left alone.
poll(dbr, heap, draw) ==
    [s \in DOMAIN heap |->
        IF s \in Placed(dbr) THEN socket_poll(heap[s], draw[s]) ELSE heap[s]]

\* ---------------------------------------------------------------- main.rs
\* House::rooms of main.rs.
main_rooms(dbr) == {Ok(s) : s \in collect(DOMAIN dbr)}

\* House::devices of main.rs: the names of the room's list, in list order.
main_devices(dbr, heap, room) ==
    IF room \notin DOMAIN dbr
    THEN NoSuchRoom(room)
    ELSE Ok([i \in DOMAIN dbr[room] |-> heap[dbr[room][i]].name])

\* main.rs add_socket_to_room without the check at its start.
main_add_socket_to_room_unchecked(dbr, socks, heap, s, room) ==
    LET entered == or_insert(dbr, room, <<>>)
    IN  [device_by_room |-> [entered EXCEPT ![room] = Append(@, s)],
         sockets |-> Append(socks, s),
         ret |-> Ok(<<>>)]

\* House::add_socket_to_room of main.rs.
main_add_socket_to_room(dbr, socks, heap, s, room) ==
    IF LET res == main_devices(dbr, heap, room)
       IN  res.kind = "Ok" /\ Contains(res.val, heap[s].name)
    THEN [device_by_room |-> dbr, sockets |-> socks,
          ret |-> AlreadyContainsDevice(heap[s].name)]
    ELSE LET entered == or_insert(dbr, room, <<>>)
         IN  IF room \notin DOMAIN entered
             THEN [device_by_room |-> entered, sockets |-> socks, ret |-> Panic]
             ELSE [device_by_room |-> [entered EXCEPT ![room] = Append(@, s)],
                   sockets |-> Append(socks, s),
                   ret |-> Ok(<<>>)]

\* The handles main.rs House::poll visits.
main_Placed(dbr) == UNION {Range(dbr[r]) : r \in DOMAIN dbr}

\* House::poll of main.rs.
main_poll(dbr, heap, draw) ==
    [s \in DOMAIN heap |->
        IF s \in main_Placed(dbr) THEN socket_poll(heap[s], draw[s]) ELSE heap[s]]

\* ---------------------------------------------------------------- steps
\* Each program built MaxSockets sockets with Socket::new and an empty house
\* with House::new; both are given the same names and draw the same first
\* samples.
Init ==
    /\ socket \in [Handles -> UNION {SocketNew(n) : n \in Names}]
    /\ device_by_room = HashMapNew
    /\ sockets = <<>>
    /\ last = Call("new", NoRoom, NoSocket, Ok(<<>>))
    /\ prev = Snapshot(HashMapNew, <<>>)
    /\ m_socket = socket
    /\ m_device_by_room = HashMapNew
    /\ m_sockets = <<>>
    /\ m_last = Call("new", NoRoom, NoSocket, Ok(<<>>))

\* lib.rs: house.add_socket_to_room(s, room).  The run stops adding once the
\* socket index would grow past MaxIndex entries.
AddSocketToRoom(s, room) ==
    LET out == add_socket_to_room(device_by_room, sockets, socket, s, room)
    IN  /\ Len(out.sockets) <= MaxIndex
        /\ device_by_room' = out.device_by_room
        /\ sockets' = out.sockets
        /\ last' = Call("add_socket_to_room", room, s, out.ret)
        /\ prev' = Snapshot(device_by_room, sockets)
        /\ UNCHANGED socket

\* lib.rs: house.remove_room(room)
RemoveRoom(room) ==
    LET out == remove_room(device_by_room, sockets, room)
    IN  /\ device_by_room' = out.device_by_room
        /\ sockets' = out.sockets
        /\ last' = Call("remove_room", room, NoSocket, out.ret)
        /\ prev' = Snapshot(device_by_room, sockets)
        /\ UNCHANGED socket

\* lib.rs: house.remove_socket_from_room(room, s)
RemoveSocketFromRoom(room, s) ==
    LET out == remove_socket_from_room(device_by_room, sockets, socket, room, s)
    IN  /\ device_by_room' = out.device_by_room
        /\ sockets' = out.sockets
        /\ last' = Call("remove_socket_from_room", room, s, out.ret)
        /\ prev' = Snapshot(device_by_room, sockets)
        /\ UNCHANGED socket

\* lib.rs: house.poll()
Poll(draw) ==
    /\ socket' = poll(device_by_room, socket, draw)
    /\ last' = Call("poll", NoRoom, NoSocket, Ok(<<>>))
    /\ prev' = Snapshot(device_by_room, sockets)
    /\ UNCHANGED <<device_by_room, sockets>>

\* lib.rs: house.devices(room)
Devices(room) ==
    /\ \E res \in devices(device_by_room, room) :
          last' = Call("devices", room, NoSocket, res)
    /\ prev' = Snapshot(device_by_room, sockets)
    /\ UNCHANGED <<socket, device_by_room, sockets>>

\* lib.rs: house.rooms()
RoomsCall ==
    /\ \E res \in rooms(device_by_room) :
          last' = Call("rooms", NoRoom, NoSocket, res)
    /\ prev' = Snapshot(device_by_room, sockets)
    /\ UNCHANGED <<socket, device_by_room, sockets>>

\* main.rs: house.add_socket_to_room(s, room), with the same cap on the index.
MainAddSocketToRoom(s, room) ==
    LET out == main_add_socket_to_room(m_device_by_room, m_sockets, m_socket, s, room)
    IN  /\ Len(out.sockets) <= MaxIndex
        /\ m_device_by_room' = out.device_by_room
        /\ m_sockets' = out.sockets
        /\ m_last' = Call("add_socket_to_room", room, s, out.ret)
        /\ UNCHANGED m_socket

\* main.rs: house.poll()
MainPoll(draw) ==
    /\ m_socket' = main_poll(m_device_by_room, m_socket, draw)
    /\ m_last' = Call("poll", NoRoom, NoSocket, Ok(<<>>))
    /\ UNCHANGED <<m_device_by_room, m_sockets>>

\* main.rs: house.devices(room)
MainDevices(room) ==
    /\ m_last' = Call("devices", room, NoSocket,
                      main_devices(m_device_by_room, m_socket, room))
    /\ UNCHANGED <<m_socket, m_device_by_room, m_sockets>>

\* main.rs: house.rooms()
MainRoomsCall ==
    /\ \E res \in main_rooms(m_device_by_room) :
          m_last' = Call("rooms", NoRoom, NoSocket, res)
    /\ UNCHANGED <<m_socket, m_device_by_room, m_sockets>>

\* A caller of the lib.rs House.
LibAdd == \E s \in Handles, room \in Rooms : AddSocketToRoom(s, room) /\ UNCHANGED main_vars
LibRemoveRoom == \E room \in Rooms : RemoveRoom(room) /\ UNCHANGED main_vars
LibRemoveSocket == \E room \in Rooms, s \in Handles : RemoveSocketFromRoom(room, s) /\ UNCHANGED main_vars
LibPoll == \E draw \in Draws : Poll(draw) /\ UNCHANGED main_vars
LibDevices == \E room \in Rooms : Devices(room) /\ UNCHANGED main_vars
LibRooms == RoomsCall /\ UNCHANGED main_vars

Next ==
    \/ LibAdd
    \/ LibRemoveRoom
    \/ LibRemoveSocket
    \/ LibPoll
    \/ LibDevices
    \/ LibRooms

Spec == Init /\ [][Next]_vars

\* A caller of the main.rs House.
MainAdd == \E s \in Handles, room \in Rooms : MainAddSocketToRoom(s, room) /\ UNCHANGED lib_vars
MainPollStep == \E draw \in Draws : MainPoll(draw) /\ UNCHANGED lib_vars
MainDevicesStep == \E room \in Rooms : MainDevices(room) /\ UNCHANGED lib_vars
MainRoomsStep == MainRoomsCall /\ UNCHANGED lib_vars

\* The two programs are separate: a run drives the lib.rs House or the
\* main.rs House, never both.
LibIdle == last.op = "new"
MainIdle == m_last.op = "new"

NextEither ==
    \/ MainIdle /\ LibAdd
    \/ MainIdle /\ LibRemoveRoom
    \/ MainIdle /\ LibRemoveSocket
    \/ MainIdle /\ LibPoll
    \/ LibIdle /\ MainAdd
    \/ LibIdle /\ MainPollStep
    \/ LibIdle /\ MainDevicesStep
    \/ LibIdle /\ MainRoomsStep

SpecEither == Init /\ [][NextEither]_vars

\* A caller that gives both houses the same calls of the operations both
\* files define, poll drawing the same samples in both.
BothAdd ==
    \E s \in Handles, room \in Rooms :
        AddSocketToRoom(s, room) /\ MainAddSocketToRoom(s, room)
BothPoll == \E draw \in Draws : Poll(draw) /\ MainPoll(draw)
BothDevices == \E room \in Rooms : Devices(room) /\ MainDevices(room)
BothRooms == RoomsCall /\ MainRoomsCall

NextBoth ==
    \/ BothAdd
    \/ BothPoll
    \/ BothDevices
    \/ BothRooms

SpecBoth == Init /\ [][NextBoth]_vars

\* ---------------------------------------------------------------- properties
\* The names of the devices a room holds (none when the room has no entry).
HeldNames(dbr, heap, room) ==
    IF room \in DOMAIN dbr THEN {heap[h].name : h \in Range(dbr[room])} ELSE {}

\* Room `room` maps name n to handle h.
Maps(dbr, room, n, h) ==
    room \in DOMAIN dbr /\ n \in DOMAIN dbr[room] /\ dbr[room][n] = h

\* The last call left the room mappings and the socket index as they were.
SameHouse == device_by_room = prev.device_by_room /\ sockets = prev.sockets

LastName == socket[last.socket].name

\* C1: an add_socket_to_room whose room already held a device of the same
\* name returned AlreadyContainsDevice carrying that name and left the room
\* mappings and the socket index exactly as they were.
AddCollisionRejected ==
    (/\ last.op = "add_socket_to_room"
     /\ LastName \in HeldNames(prev.device_by_room, socket, last.room))
    => /\ last.ret = AlreadyContainsDevice(LastName)
       /\ SameHouse

\* C1 witness: an add was rejected because a different instance of the same
\* name was in the room.
AddCollisionSeen ==
    /\ last.op = "add_socket_to_room"
    /\ last.ret.kind = "AlreadyContainsDevice"
    /\ \E h \in Range(prev.device_by_room[last.room]) :
          h # last.socket /\ socket[h].name = LastName

\* C2: no room lists a name twice, in the map-based House (distinct entries
\* of a room hold devices of distinct names, and devices(r) has no repeats)
\* and in the list-based House of main.rs (devices(r) has no repeats).
NoDuplicateNames ==
    /\ \A r \in DOMAIN device_by_room :
          /\ \A k1, k2 \in DOMAIN device_by_room[r] :
                k1 # k2 => socket[device_by_room[r][k1]].name
                            # socket[device_by_room[r][k2]].name
          /\ \A res \in devices(device_by_room, r) :
                \A i, j \in DOMAIN res.val : i # j => res.val[i] # res.val[j]
    /\ \A r \in DOMAIN m_device_by_room :
          LET names == main_devices(m_device_by_room, m_socket, r).val
          IN  \A i, j \in DOMAIN names : i # j => names[i] # names[j]

\* C2 witness: the list-based House refused a device while its room held two.
MainDuplicateRefused ==
    /\ m_last.op = "add_socket_to_room"
    /\ m_last.ret.kind = "AlreadyContainsDevice"
    /\ Len(m_device_by_room[m_last.room]) = 2

\* C3: an add_socket_to_room whose room held no device of that name (the room
\* absent included) returned Ok; afterwards rooms() lists the room, devices()
\* of it is its previous names plus the new one, the room maps the name to
\* the handle added, and the handle was appended once to the socket index.
AddSucceeds ==
    (/\ last.op = "add_socket_to_room"
     /\ LastName \notin HeldNames(prev.device_by_room, socket, last.room))
    => /\ last.ret = Ok(<<>>)
       /\ \A res \in rooms(device_by_room) : Contains(res.val, last.room)
       /\ \A res \in devices(device_by_room, last.room) :
             /\ res.kind = "Ok"
             /\ Range(res.val) =
                   (IF last.room \in DOMAIN prev.device_by_room
                    THEN DOMAIN prev.device_by_room[last.room] ELSE {})
                   \cup {LastName}
       /\ Maps(device_by_room, last.room, LastName, last.socket)
       /\ sockets = Append(prev.sockets, last.socket)

\* C3 witness: an add succeeded into a room that had no entry.
AddIntoAbsentRoom ==
    /\ last.op = "add_socket_to_room"
    /\ last.ret.kind = "Ok"
    /\ last.room \notin DOMAIN prev.device_by_room

\* C4: devices(r) fails with NoSuchRoom carrying r exactly when r has no
\* entry, otherwise returns each name stored in r once, and changes nothing.
DevicesLookup ==
    last.op = "devices"
    => /\ last.ret.kind = "NoSuchRoom" <=> last.room \notin DOMAIN device_by_room
       /\ last.ret.kind = "NoSuchRoom" => last.ret = NoSuchRoom(last.room)
       /\ last.room \in DOMAIN device_by_room
             => /\ last.ret.kind = "Ok"
                /\ Range(last.ret.val) = HeldNames(device_by_room, socket, last.room)
                /\ Len(last.ret.val) = Cardinality(Range(device_by_room[last.room]))
       /\ SameHouse

\* C4 witness: devices failed on a missing room while another room existed.
DevicesOnMissingRoom ==
    /\ last.op = "devices"
    /\ last.ret.kind = "NoSuchRoom"
    /\ DOMAIN device_by_room # {}

\* C5: remove_socket_from_room(r, d) removes no instance other than d, from
\* any room's mapping or from the socket index.
RemovalIsByIdentity ==
    last.op = "remove_socket_from_room"
    => /\ \A r \in DOMAIN prev.device_by_room :
             \A k \in DOMAIN prev.device_by_room[r] :
                prev.device_by_room[r][k] # last.socket
                => Maps(device_by_room, r, k, prev.device_by_room[r][k])
       /\ \A h \in Range(prev.sockets) :
             h # last.socket => h \in Range(sockets)

\* C6: every handle stored in some room is also in the socket index.
IndexMirrorsRooms == Placed(device_by_room) \subseteq Range(sockets)

\* C7: remove_socket_from_room(r, d) with r missing, or with no device named
\* d.name in r, does not fail and changes neither mappings nor index.
RemoveMissingIsNoOp ==
    (/\ last.op = "remove_socket_from_room"
     /\ LastName \notin HeldNames(prev.device_by_room, socket, last.room))
    => /\ last.ret.kind = "Ok"
       /\ SameHouse

\* The case of C8: the last call was remove_socket_from_room(r1, d1) with d1
\* in r1 and a namesake d2 (another instance) in another room r2.
NamesakeCase(d2, r2) ==
    /\ last.op = "remove_socket_from_room"
    /\ d2 # last.socket
    /\ r2 # last.room
    /\ socket[d2].name = LastName
    /\ Maps(prev.device_by_room, last.room, LastName, last.socket)
    /\ Maps(prev.device_by_room, r2, LastName, d2)

\* C8: removing d1 from r1 while a namesake d2 is in another room r2 leaves
\* r1 without an entry for the name, r2 still mapping the name to d2, and d2
\* in the socket index if it was there.
RemoveKeepsNamesake ==
    \A d2 \in Handles, r2 \in Rooms :
        NamesakeCase(d2, r2)
        => /\ ~(\E h \in Handles : Maps(device_by_room, last.room, LastName, h))
           /\ Maps(device_by_room, r2, LastName, d2)
           /\ d2 \in Range(prev.sockets) => d2 \in Range(sockets)

\* C8 witness: such a removal happened with the namesake in the index.
NamesakeKept ==
    \E d2 \in Handles, r2 \in Rooms :
        NamesakeCase(d2, r2) /\ d2 \in Range(prev.sockets)

\* C9 as stated: every room listed holds a device, and devices(r) never
\* succeeds with an empty result.
NoEmptyRoom ==
    \A r \in DOMAIN device_by_room :
        /\ DOMAIN device_by_room[r] # {}
        /\ \A res \in devices(device_by_room, r) :
              res.kind = "Ok" => res.val # <<>>

\* C9 amended: a room with zero devices arises only from
\* remove_socket_from_room on that room: a listed room that is empty was
\* empty before the last call, or that call was remove_socket_from_room on it.
EmptyRoomOnlyByRemoveSocket ==
    \A r \in DOMAIN device_by_room :
        DOMAIN device_by_room[r] = {}
        => \/ r \in DOMAIN prev.device_by_room
                /\ DOMAIN prev.device_by_room[r] = {}
           \/ last.op = "remove_socket_from_room" /\ last.room = r

\* C9 witness: remove_socket_from_room took the last device of a room, which
\* stays listed and empty.
RoomEmptied ==
    /\ last.op = "remove_socket_from_room"
    /\ last.room \in DOMAIN device_by_room
    /\ DOMAIN device_by_room[last.room] = {}
    /\ DOMAIN prev.device_by_room[last.room] # {}

\* C10: remove_room never fails, changes nothing when the room has no entry,
\* and a second remove_room of the same room leaves the house as the first did.
RemoveRoomIdempotent ==
    last.op = "remove_room"
    => /\ last.ret = Ok(<<>>)
       /\ last.room \notin DOMAIN prev.device_by_room => SameHouse
       /\ LET again == remove_room(device_by_room, sockets, last.room)
          IN  /\ again.ret = Ok(<<>>)
              /\ again.device_by_room = device_by_room
              /\ again.sockets = sockets
              /\ rooms(again.device_by_room) = rooms(device_by_room)

\* C10 witness: remove_room was called on a room with no entry while the
\* index held sockets.
RemoveRoomOnMissing ==
    /\ last.op = "remove_room"
    /\ last.room \notin DOMAIN prev.device_by_room
    /\ sockets # <<>>

\* C11: remove_room(r) leaves r out of rooms() and makes devices(r) fail with
\* NoSuchRoom carrying r; a room without an entry gets one only by a
\* successful add_socket_to_room into it, and then holds only the device added.
RemovedRoomStaysGone ==
    /\ last.op = "remove_room"
       => /\ \A res \in rooms(device_by_room) : ~Contains(res.val, last.room)
          /\ devices(device_by_room, last.room) = {NoSuchRoom(last.room)}
    /\ \A r \in Rooms :
          (r \notin DOMAIN prev.device_by_room /\ r \in DOMAIN device_by_room)
          => /\ last = Call("add_socket_to_room", r, last.socket, Ok(<<>>))
             /\ last.socket \in Handles
             /\ DOMAIN device_by_room[r] = {LastName}
             /\ device_by_room[r][LastName] = last.socket

\* C11 witness: remove_room removed a room that held two devices.
RoomWithDevicesRemoved ==
    /\ last.op = "remove_room"
    /\ last.room \in DOMAIN prev.device_by_room
    /\ Cardinality(DOMAIN prev.device_by_room[last.room]) = 2
    /\ last.room \notin DOMAIN device_by_room

VoltagesSampled ==
    \A s \in Handles : socket[s].voltage >= 0 /\ socket[s].voltage < UpperVoltage

\* C13: every socket's voltage lies in [0, 380) in every reachable state, from
\* construction on, and a voltage is replaced only by a poll.
VoltageInRange ==
    /\ []VoltagesSampled
    /\ [][socket' # socket => last'.op = "poll"]_vars

\* C13 witness: a poll gave a placed socket the largest sample and another
\* placed socket the smallest.
PolledToExtremes ==
    /\ last.op = "poll"
    /\ \E s1, s2 \in Placed(device_by_room) :
          /\ socket[s1].voltage = UpperVoltage - 1
          /\ socket[s2].voltage = 0

\* C14: a poll leaves the rooms, every mapping, the socket index and every
\* name unchanged, and a socket placed in no room keeps its reading.
PollFrame ==
    [][last'.op = "poll"
       => /\ device_by_room' = device_by_room
          /\ sockets' = sockets
          /\ \A s \in Handles :
                /\ socket'[s].name = socket[s].name
                /\ s \notin Placed(device_by_room) => socket'[s] = socket[s]]_vars

\* C14 witness: a poll ran while the index held a socket placed in no room,
\* whose reading differs from that of a placed socket.
PolledPastOrphan ==
    /\ last.op = "poll"
    /\ \E o \in Range(sockets) \ Placed(device_by_room) :
          \E s \in Placed(device_by_room) : socket[s].voltage # socket[o].voltage

\* Each entry of each room is keyed by the name of the device it stores.
KeyedByName ==
    \A r \in DOMAIN device_by_room :
        \A k \in DOMAIN device_by_room[r] : socket[device_by_room[r][k]].name = k

\* C15: each entry of each room's mapping is keyed by the name of its device,
\* no device's name ever changes, and so devices(r) returns exactly the names
\* of the devices held in r.
NamesAreKeys ==
    /\ [](/\ KeyedByName
          /\ \A r \in DOMAIN device_by_room :
                \A res \in devices(device_by_room, r) :
                    Range(res.val) = HeldNames(device_by_room, socket, r))
    /\ [][\A s \in Handles : socket'[s].name = socket[s].name]_vars

\* C15 witness: a room holds two devices after a poll.
TwoKeysAfterPoll ==
    /\ last.op = "poll"
    /\ \E r \in DOMAIN device_by_room : Cardinality(DOMAIN device_by_room[r]) = 2

\* The case of C16: the last call was remove_socket_from_room(r1, d) with the
\* one handle d registered in r1 and in another room r2.
SharedCase(r2) ==
    /\ last.op = "remove_socket_from_room"
    /\ r2 # last.room
    /\ Maps(prev.device_by_room, last.room, LastName, last.socket)
    /\ Maps(prev.device_by_room, r2, LastName, last.socket)

\* C16: add_socket_to_room, remove_socket_from_room and remove_room leave the
\* entry and mapping of every room other than the one named unchanged; when a
\* handle d is in r1 and r2, removing it from r1 leaves r2 holding d, devices(r2)
\* listing its name, and a poll still refreshing d.
OtherRoomsUntouched ==
    /\ last.op \in {"add_socket_to_room", "remove_socket_from_room", "remove_room"}
       => \A r2 \in Rooms \ {last.room} :
             /\ r2 \in DOMAIN device_by_room <=> r2 \in DOMAIN prev.device_by_room
             /\ r2 \in DOMAIN device_by_room
                   => device_by_room[r2] = prev.device_by_room[r2]
    /\ \A r2 \in Rooms :
          SharedCase(r2)
          => /\ Maps(device_by_room, r2, LastName, last.socket)
             /\ \A res \in devices(device_by_room, r2) :
                   res.kind = "Ok" /\ Contains(res.val, LastName)
             /\ \A draw \in Draws :
                   poll(device_by_room, socket, draw)[last.socket].voltage
                      = draw[last.socket]

\* C16 witness: a handle registered in two rooms was removed from one of them.
SharedHandleRemoved == \E r2 \in Rooms : SharedCase(r2)

\* What a return value says, the order of a listing aside.
Outcome(ret) == [kind |-> ret.kind, arg |-> ret.arg, val |-> Range(ret.val)]

\* C17: given the same add_socket_to_room, rooms, devices and poll calls, the
\* list-based House of main.rs and the map-based House of lib.rs return the
\* same outcomes, list the same rooms and the same names in each room (or fail
\* alike), and hold the same socket index.
HousesAgree ==
    /\ Outcome(last.ret) = Outcome(m_last.ret)
    /\ {Outcome(res) : res \in rooms(device_by_room)}
          = {Outcome(res) : res \in main_rooms(m_device_by_room)}
    /\ \A r \in Rooms :
          {Outcome(res) : res \in devices(device_by_room, r)}
             = {Outcome(main_devices(m_device_by_room, m_socket, r))}
    /\ sockets = m_sockets

\* C17 witness: both houses refused the same add while holding two sockets.
BothRefused ==
    /\ last.op = "add_socket_to_room"
    /\ m_last.op = "add_socket_to_room"
    /\ last.ret.kind = "AlreadyContainsDevice"
    /\ m_last.ret.kind = "AlreadyContainsDevice"
    /\ Len(sockets) = 2
    /\ Len(m_sockets) = 2

====
